---- MODULE Spec2Model ----
(***************************************************************************)
(* Grid rasterisation subsystem of kwave/utils/maputils.py:                *)
(* createPixelDim / makePixelMap, makeDisc / makeBall, makeCircle,         *)
(* makeLine (point-to-point and angled) and makeArc.                       *)
(*                                                                         *)
(* Every routine is a pure function, so each is an operator computed the   *)
(* way the code computes it (loops are RECURSIVE operators over the loop   *)
(* variables).  A behaviour is one call: Init draws the routine and its    *)
(* arguments, the routine's action applies it and stores what it returns   *)
(* or raises.                                                              *)
(*                                                                         *)
(* Conventions                                                             *)
(*  - a numpy 2-D array of zeros and ones is the set of its 0-based cells  *)
(*    <<i, j>> holding one; a write line[i, j] = 1 with a raw index is     *)
(*    in range iff -N <= i <= N-1 (negative indices wrap), else IndexError *)
(*  - Python tuples/arrays are TLA+ tuples, so code index k is TLA+ index  *)
(*    k+1                                                                  *)
(*  - gradients are exact rationals (numerator, denominator); squared      *)
(*    deviations are compared after multiplying through by the squared     *)
(*    denominator, so comparisons are those of real arithmetic             *)
(*  - an angle is q4 quarter turns plus atan(p/q) with p >= 0, q > 0       *)
(*    (p = 0: an exact multiple of pi/2)                                   *)
(***************************************************************************)
EXTENDS Integers, Sequences, FiniteSets, TLC

VARIABLES call, phase, ret

vars == <<call, phase, ret>>

(***************************************************************************)
(* Bounds of the model.                                                    *)
(***************************************************************************)
MaxN == 4
MaxLen == 3
MaxSlope == 2
MaxRadius == 3
MaxBallN == 4
MaxBallRadius == 2
MaxDim == 7
MaxArcN == 3
MaxDiameter == 3
MaxShapeN == 8
MaxLoopRadius == 30
MaxFlatN == 5
MaxFlatDiameter == 5
MaxStop == 3
MaxPoints == 3
Fuel == 12

(***************************************************************************)
(* Arithmetic helpers.                                                     *)
(***************************************************************************)
Abs(v) == IF v < 0 THEN -v ELSE v

Sq(v) == v * v

Min2(u, v) == IF u < v THEN u ELSE v

Max2(u, v) == IF u < v THEN v ELSE u

\* int(floor(N / 2)) for N >= 0
FloorHalf(N) == N \div 2

\* int(math.ceil(N / 2)) for N >= 0
CeilHalf(N) == (N + 1) \div 2

\* matlab_find(diff == min(diff))[0], then index[0] - 1 as a 0-based list
\* index: the first position holding the minimum (here 1-based, as TLA+
\* tuples are)
FirstMin(diff) ==
    CHOOSE k \in UNION { {i \in 1..Len(d) :
                             /\ \A j \in 1..Len(d) : d[i] <= d[j]
                             /\ \A j \in 1..(i - 1) : d[j] > d[i]} :
                         d \in {diff} } : TRUE

\* numpy indexing arr[i] on an axis of length N: in range or IndexError
IndexOK(i, N) == -N <= i /\ i <= N - 1

\* the element a raw (possibly negative) index addresses
Wrap(i, N) == i % N

\* a 1-based point of the grid [1, Nx] x [1, Ny]
InGrid(pt, Nx, Ny) ==
    /\ 1 <= pt[1] /\ pt[1] <= Nx
    /\ 1 <= pt[2] /\ pt[2] <= Ny

(***************************************************************************)
(* makeLine                                                                *)
(***************************************************************************)
NoPoint == <<>>

NoAngle == [q4 |-> 0, p |-> 0, q |-> 0]

\* One entry of the record of writes: pt is (x, y) of the loop variables when
\* the statement line[...] = 1 ran, idx the raw index pair it used.
Wr(x, y, i, j) == [pt |-> <<x, y>>, idx |-> <<i, j>>]

WriteOK(w, Nx, Ny) == IndexOK(w.idx[1], Nx) /\ IndexOK(w.idx[2], Ny)

\* the array after the writes of tr
Cells(tr, Nx, Ny) ==
    { <<Wrap(tr[k].idx[1], Nx), Wrap(tr[k].idx[2], Ny)>> : k \in 1..Len(tr) }

LineResult(status, tr, Nx, Ny) ==
    [status |-> status,
     line |-> IF status = "ok" THEN Cells(tr, Nx, Ny) ELSE {},
     trace |-> tr]

\* lines 795-796: the condition is evaluated and a ValueError object is built,
\* but the statement has no raise, so nothing is raised
StartpointRaises(Nx, Ny, startpoint) ==
    /\ (startpoint[1] < 1 \/ startpoint[2] < 1
        \/ startpoint[1] > Nx \/ startpoint[2] > Ny)
    /\ FALSE

\* lines 807-808: a -= 1 ; b -= 1
ToZeroBased(pt) == <<pt[1] - 1, pt[2] - 1>>

\* lines 828-830
AtoBOutOfGrid(Nx, Ny, a, b) ==
    \/ a[1] < 0 \/ a[2] < 0
    \/ b[1] < 0 \/ b[2] < 0
    \/ a[1] > Nx - 1 \/ b[1] > Nx - 1
    \/ a[2] > Ny - 1 \/ b[2] > Ny - 1

\* ShallowNext always taking the candidate (x, y + 1)
ShallowNextStalls(a, b, x, y) == <<x, y + 1>>

\* lines 871-881, |m| < 1: m = dy/dx, c = a[1] - m*a[0],
\* diff = (poss_y - (m*poss_x + c))^2, here times dx^2
ShallowNext(a, b, x, y) ==
    LET poss_x == <<x, x, x + 1, x + 1, x + 1>>
        poss_y == <<y - 1, y + 1, y - 1, y, y + 1>>
        dx == b[1] - a[1]
        dy == b[2] - a[2]
        diff == [k \in 1..5 |->
                    Sq(dx * (poss_y[k] - a[2]) - dy * (poss_x[k] - a[1]))]
        index == FirstMin(diff)
    IN  <<poss_x[index], poss_y[index]>>

\* line 884: line[x - 1, y - 1] = 1
ShallowWrite(x, y) == Wr(x, y, x - 1, y - 1)

\* lines 904-914, 1 <= |m| < inf: true_x = (poss_y - c) / m,
\* diff = (poss_x - true_x)^2, here times dy^2
SteepNext(a, b, x, y) ==
    LET poss_y == <<y, y, y + 1, y + 1, y + 1>>
        poss_x == <<x - 1, x + 1, x - 1, x, x + 1>>
        dx == b[1] - a[1]
        dy == b[2] - a[2]
        diff == [k \in 1..5 |->
                    Sq(dy * (poss_x[k] - a[1]) - dx * (poss_y[k] - a[2]))]
        index == FirstMin(diff)
    IN  <<poss_x[index], poss_y[index]>>

\* line 917: line[x, y] = 1
SteepWrite(x, y) == Wr(x, y, x, y)

\* lines 937-940, m = +-inf
VerticalNext(x, y) == <<x, y + 1>>

VerticalWrite(x, y) == Wr(x, y, x, y)

\* lines 855, 886, 919: which of the three branches runs
SlopeClass(a, b) ==
    IF b[1] = a[1] THEN "vertical"
    ELSE IF Abs(b[2] - a[2]) < Abs(b[1] - a[1]) THEN "shallow"
    ELSE "steep"

\* lines 868-884 / 901-917 / 934-940: the while loop of the branch
RECURSIVE AtoBLoop(_, _, _, _, _, _, _, _)
AtoBLoop(Nx, Ny, a, b, cls, x, y, tr) ==
    LET cur == IF cls = "shallow" THEN x ELSE y
        stop == IF cls = "shallow" THEN Max2(a[1], b[1]) ELSE Max2(a[2], b[2])
    IN  IF ~(cur < stop) THEN LineResult("ok", tr, Nx, Ny)
        ELSE IF Len(tr) >= Fuel THEN LineResult("nonterminating", tr, Nx, Ny)
        ELSE
          LET nxt == CASE cls = "shallow" -> ShallowNext(a, b, x, y)
                       [] cls = "steep" -> SteepNext(a, b, x, y)
                       [] OTHER -> VerticalNext(x, y)
              w == CASE cls = "shallow" -> ShallowWrite(nxt[1], nxt[2])
                     [] cls = "steep" -> SteepWrite(nxt[1], nxt[2])
                     [] OTHER -> VerticalWrite(nxt[1], nxt[2])
          IN  IF ~WriteOK(w, Nx, Ny)
              THEN LineResult("IndexError", Append(tr, w), Nx, Ny)
              ELSE AtoBLoop(Nx, Ny, a, b, cls, nxt[1], nxt[2], Append(tr, w))

\* lines 857-866 / 888-899 / 921-932: the end to start from, then
\* line[x, y] = 1
AtoBFirst(a, b, cls) ==
    IF cls = "shallow"
    THEN (IF a[1] < b[1] THEN a ELSE b)
    ELSE (IF a[2] < b[2] THEN a ELSE b)

\* lines 802-808, 817-831, 846-940
makeLineAtoB(Nx, Ny, startpoint, endpoint) ==
    LET a == ToZeroBased(startpoint)
        b == ToZeroBased(endpoint)
        cls == SlopeClass(a, b)
        s == AtoBFirst(a, b, cls)
        w == Wr(s[1], s[2], s[1], s[2])
    IN  IF a = b THEN LineResult("ValueError", <<>>, Nx, Ny)
        ELSE IF AtoBOutOfGrid(Nx, Ny, a, b)
        THEN LineResult("ValueError", <<>>, Nx, Ny)
        ELSE AtoBLoop(Nx, Ny, a, b, cls, s[1], s[2], <<w>>)

\* lines 836-840: angle % (2*pi), then back into (-pi, pi]
NormaliseAngle(angle) ==
    LET r == angle.q4 % 4
    IN  IF (r = 2 /\ angle.p > 0) \/ r = 3
        THEN [q4 |-> r - 4, p |-> angle.p, q |-> angle.q]
        ELSE [q4 |-> r, p |-> angle.p, q |-> angle.q]

\* the if/elif chain of lines 960, 977, 1008, 1025, 1056, 1073, 1104, 1121
Sector(angle) ==
    CASE Abs(angle.q4) = 2 /\ angle.p = 0 -> "pi"
      [] angle.q4 = 1 /\ angle.p > 0 -> "halfpi_pi"
      [] angle.q4 = 1 /\ angle.p = 0 -> "halfpi"
      [] angle.q4 = 0 /\ angle.p > 0 -> "zero_halfpi"
      [] angle.q4 = 0 /\ angle.p = 0 -> "zero"
      [] angle.q4 = -1 /\ angle.p > 0 -> "neghalfpi_zero"
      [] angle.q4 = -1 /\ angle.p = 0 -> "neghalfpi"
      [] angle.q4 = -2 /\ angle.p > 0 -> "negpi_neghalfpi"

\* lines 980, 1028, 1076, 1124: the gradient m as <<numerator, denominator>>,
\* with tan(atan(p/q)) = p/q and tan(pi/2 - atan(p/q)) = q/p
Gradient(sec, angle) ==
    CASE sec = "halfpi_pi" -> <<-angle.p, angle.q>>
      [] sec = "zero_halfpi" -> <<angle.q, angle.p>>
      [] sec = "neghalfpi_zero" -> <<-angle.p, angle.q>>
      [] sec = "negpi_neghalfpi" -> <<angle.q, angle.p>>
      [] OTHER -> <<0, 1>>

\* lines 986-987, 1034-1035, 1082-1083, 1130-1131
PossX(sec, x) ==
    CASE sec = "halfpi_pi" -> <<x - 1, x - 1, x>>
      [] sec = "zero_halfpi" -> <<x - 1, x - 1, x>>
      [] sec = "neghalfpi_zero" -> <<x + 1, x + 1, x>>
      [] sec = "negpi_neghalfpi" -> <<x + 1, x + 1, x>>

PossY(sec, y) ==
    CASE sec = "halfpi_pi" -> <<y, y + 1, y + 1>>
      [] sec = "zero_halfpi" -> <<y, y - 1, y - 1>>
      [] sec = "neghalfpi_zero" -> <<y, y - 1, y - 1>>
      [] sec = "negpi_neghalfpi" -> <<y, y + 1, y + 1>>

\* lines 981 and 989-996 (and the three copies): c = y - m*x at the start
\* point, true_y = m*poss_x + c, diff = (poss_y - true_y)^2, here times the
\* squared denominator of m
ObliqueNext(sec, m, startpoint, x, y) ==
    LET poss_x == PossX(sec, x)
        poss_y == PossY(sec, y)
        diff == [k \in 1..3 |->
                    Sq(m[2] * (poss_y[k] - startpoint[2])
                       - m[1] * (poss_x[k] - startpoint[1]))]
        index == FirstMin(diff)
    IN  <<poss_x[index], poss_y[index]>>

\* AxisNext with the steps for 0 and +-pi exchanged
AxisNextMirrored(sec, x, y) ==
    CASE sec = "pi" -> <<x, y - 1>>
      [] sec = "halfpi" -> <<x - 1, y>>
      [] sec = "zero" -> <<x, y + 1>>
      [] sec = "neghalfpi" -> <<x + 1, y>>

\* lines 965, 1013, 1061, 1109
AxisNext(sec, x, y) ==
    CASE sec = "pi" -> <<x, y + 1>>
      [] sec = "halfpi" -> <<x - 1, y>>
      [] sec = "zero" -> <<x, y - 1>>
      [] sec = "neghalfpi" -> <<x + 1, y>>

IsAxis(sec) == sec \in {"pi", "halfpi", "zero", "neghalfpi"}

\* "stop the points incrementing at the edges": lines 968, 999, 1016, 1047,
\* 1064, 1095, 1112, 1143
EdgeBreak(sec, x, y, Nx, Ny) ==
    CASE sec = "pi" -> y > Ny
      [] sec = "halfpi_pi" -> (x < 0) \/ (y > Ny - 1)
      [] sec = "halfpi" -> x < 1
      [] sec = "zero_halfpi" -> (x < 1) \/ (y < 1)
      [] sec = "zero" -> y < 1
      [] sec = "neghalfpi_zero" -> (x > Nx) \/ (y < 1)
      [] sec = "neghalfpi" -> x > Nx
      [] sec = "negpi_neghalfpi" -> (x > Nx) \/ (y > Ny)

\* line[x - 1, y - 1] = 1 (lines 955, 972, 1003, 1020, 1051, 1068, 1099,
\* 1116, 1147)
AngledWrite(x, y) == Wr(x, y, x - 1, y - 1)

\* while line_length < linelength, with
\* line_length = sqrt((x - startpoint[0])^2 + (y - startpoint[1])^2)
ShorterThan(startpoint, x, y, linelength) ==
    /\ linelength > 0
    /\ Sq(x - startpoint[1]) + Sq(y - startpoint[2]) < Sq(linelength)

RECURSIVE AngledLoop(_, _, _, _, _, _, _, _, _)
AngledLoop(Nx, Ny, startpoint, sec, m, linelength, x, y, tr) ==
    IF ~ShorterThan(startpoint, x, y, linelength)
    THEN LineResult("ok", tr, Nx, Ny)
    ELSE IF Len(tr) >= Fuel THEN LineResult("nonterminating", tr, Nx, Ny)
    ELSE
      LET nxt == IF IsAxis(sec) THEN AxisNext(sec, x, y)
                 ELSE ObliqueNext(sec, m, startpoint, x, y)
          w == AngledWrite(nxt[1], nxt[2])
      IN  IF EdgeBreak(sec, nxt[1], nxt[2], Nx, Ny)
          THEN LineResult("ok", tr, Nx, Ny)
          ELSE IF ~WriteOK(w, Nx, Ny)
          THEN LineResult("IndexError", Append(tr, w), Nx, Ny)
          ELSE AngledLoop(Nx, Ny, startpoint, sec, m, linelength,
                          nxt[1], nxt[2], Append(tr, w))

\* lines 810-811, 833-840, 946-1152
makeLineAngled(Nx, Ny, startpoint, angle, length) ==
    LET ang == NormaliseAngle(angle)
        sec == Sector(ang)
        m == Gradient(sec, ang)
        w == AngledWrite(startpoint[1], startpoint[2])
    IN  IF ~WriteOK(w, Nx, Ny) THEN LineResult("IndexError", <<w>>, Nx, Ny)
        ELSE AngledLoop(Nx, Ny, startpoint, sec, m, length,
                        startpoint[1], startpoint[2], <<w>>)

\* lines 776-1152
makeLine(Nx, Ny, startpoint, endpoint, angle, length) ==
    IF StartpointRaises(Nx, Ny, startpoint)
    THEN LineResult("ValueError", <<>>, Nx, Ny)
    ELSE IF endpoint # NoPoint
    THEN makeLineAtoB(Nx, Ny, startpoint, endpoint)
    ELSE makeLineAngled(Nx, Ny, startpoint, angle, length)

(***************************************************************************)
(* makeCircle                                                              *)
(***************************************************************************)
\* arc_angle = None
NoArc == <<>>

\* lines 521-526, the angle in units of pi/2: None and anything above 2*pi
\* become 2*pi, anything below 0 becomes 0
ClampArcAngle(arc_angle) ==
    IF arc_angle = NoArc THEN 4
    ELSE IF arc_angle[1] > 4 THEN 4
    ELSE IF arc_angle[1] < 0 THEN 0
    ELSE arc_angle[1]

\* lines 536-540 (401-408 and 465-469 are the same): 0 means the midpoint
ZeroToMidpoint(c, N) == IF c = 0 THEN FloorHalf(N) + 1 ELSE c

\* atan2(v, u) + pi in units of pi/2, rounded up to a whole unit:
\* atan2(v, u) + pi <= k*pi/2 iff QuarterCeil(v, u) <= k, for integer k
QuarterCeil(v, u) ==
    IF v < 0 THEN (IF u <= 0 THEN 1 ELSE 2)
    ELSE IF v = 0 THEN (IF u >= 0 THEN 2 ELSE 4)
    ELSE (IF u >= 0 THEN 3 ELSE 4)

\* lines 559 and 584: (np.arctan2(px_i - cx, py_i - cy) + np.pi) <= arc_angle
WithinArc(px, py, cx, cy, arc) == QuarterCeil(px - cx, py - cy) <= arc

\* PlotPoint without the test against arc_angle
PlotPointNoArcTest(circle, pt, cx, cy, Nx, Ny, arc) ==
    IF InGrid(pt, Nx, Ny)
    THEN circle \cup {<<pt[1] - 1, pt[2] - 1>>}
    ELSE circle

\* lines 559-562 and 584-586: the array after one candidate point
PlotPoint(circle, pt, cx, cy, Nx, Ny, arc) ==
    IF WithinArc(pt[1], pt[2], cx, cy, arc) /\ InGrid(pt, Nx, Ny)
    THEN circle \cup {<<pt[1] - 1, pt[2] - 1>>}
    ELSE circle

\* lines 550-551: the first cardinal point, checked against the grid only
PlotFirst(circle, pt, Nx, Ny) ==
    IF InGrid(pt, Nx, Ny)
    THEN circle \cup {<<pt[1] - 1, pt[2] - 1>>}
    ELSE circle

RECURSIVE PlotAll(_, _, _, _, _, _, _)
PlotAll(circle, pts, cx, cy, Nx, Ny, arc) ==
    IF pts = <<>> THEN circle
    ELSE PlotAll(PlotPoint(circle, Head(pts), cx, cy, Nx, Ny, arc),
                 Tail(pts), cx, cy, Nx, Ny, arc)

\* line 550 and lines 554-555
FirstCardinal(cx, cy, y) == <<cx, cy - y>>

OtherCardinals(cx, cy, y) == << <<cx, cy + y>>, <<cx + y, cy>>, <<cx - y, cy>> >>

\* MidpointStep that never steps y inwards
MidpointStepFlat(st) ==
    LET x == st[1] + 1
    IN  <<x, st[2], st[3] + x + x + 1>>

\* lines 567-573: one step of the midpoint recurrence on <<x, y, d>>
MidpointStep(st) ==
    LET x == st[1] + 1
    IN  IF st[3] < 0
        THEN <<x, st[2], st[3] + x + x + 1>>
        ELSE LET y == st[2] - 1
                 a == x - y + 1
             IN  <<x, y, st[3] + a + a>>

\* EightPoints with the last reflection left out
SevenPoints(x, y, cx, cy) ==
    << <<x + cx, y + cy>>, <<y + cx, x + cy>>, <<y + cx, -x + cy>>,
       <<x + cx, -y + cy>>, <<-x + cx, -y + cy>>, <<-y + cx, -x + cy>>,
       <<-y + cx, x + cy>>, <<x + cx, y + cy>> >>

\* lines 576-577
EightPoints(x, y, cx, cy) ==
    << <<x + cx, y + cy>>, <<y + cx, x + cy>>, <<y + cx, -x + cy>>,
       <<x + cx, -y + cy>>, <<-x + cx, -y + cy>>, <<-y + cx, -x + cy>>,
       <<-y + cx, x + cy>>, <<-x + cx, y + cy>> >>

\* lines 565-586: the while loop; loop collects <<x, y, d>> after each step,
\* plotted the candidate points in the order they are tried
RECURSIVE MidpointLoop(_, _, _, _, _, _, _)
MidpointLoop(acc, st, cx, cy, Nx, Ny, arc) ==
    IF ~(st[1] < st[2] - 1) THEN acc
    ELSE LET nst == MidpointStep(st)
             pts == EightPoints(nst[1], nst[2], cx, cy)
         IN  MidpointLoop([circle |-> PlotAll(acc.circle, pts, cx, cy, Nx, Ny, arc),
                           loop |-> Append(acc.loop, nst),
                           plotted |-> acc.plotted \o pts],
                          nst, cx, cy, Nx, Ny, arc)

\* lines 542-586: the circle about the centre the routine settled on
MidpointCircle(Nx, Ny, cx, cy, radius, arc) ==
    LET first == FirstCardinal(cx, cy, radius)
        others == OtherCardinals(cx, cy, radius)
        c0 == PlotAll(PlotFirst({}, first, Nx, Ny), others, cx, cy, Nx, Ny, arc)
        fin == MidpointLoop([circle |-> c0, loop |-> << <<0, radius, 1 - radius>> >>,
                             plotted |-> <<first>> \o others],
                            <<0, radius, 1 - radius>>, cx, cy, Nx, Ny, arc)
    IN  [status |-> "ok", circle |-> fin.circle, centre |-> <<cx, cy>>,
         loop |-> fin.loop, plotted |-> fin.plotted]

\* lines 494-594
makeCircle(Nx, Ny, cx, cy, radius, arc_angle) ==
    MidpointCircle(Nx, Ny, ZeroToMidpoint(cx, Nx), ZeroToMidpoint(cy, Ny),
                   radius, ClampArcAngle(arc_angle))

(***************************************************************************)
(* createPixelDim, makePixelMap                                            *)
(***************************************************************************)
\* np.arange(start, stop, 1) for integer-valued start and stop
ARange(start, stop) ==
    [k \in 1..(IF stop > start THEN stop - start ELSE 0) |-> start + k - 1]

\* lines 735-773; Nx / 2 and (Nx - 1) / 2 are whole in the branch that uses
\* them
createPixelDim(Nx, origin_size, shift) ==
    IF Nx % 2 = 0
    THEN IF origin_size = "single"
         THEN IF shift = 1
              THEN ARange(-(Nx \div 2), (Nx \div 2) - 1 + 1)
              ELSE ARange(-(Nx \div 2) + 1, (Nx \div 2) + 1)
         ELSE ARange(-(Nx \div 2) + 1, 0 + 1) \o ARange(0, -(Nx \div 2) - 1 + 1)
    ELSE IF origin_size = "single"
         THEN ARange(-((Nx - 1) \div 2), ((Nx - 1) \div 2) + 1)
         ELSE IF shift = 1
              THEN ARange(-((Nx - 1) \div 2), 0 + 1)
                   \o ARange(0, ((Nx - 1) \div 2) - 1 + 1)
              ELSE ARange(-((Nx - 1) \div 2) + 1, 0 + 1)
                   \o ARange(0, ((Nx - 1) \div 2) + 1)

\* an option that was not passed
NotGiven == <<>>

\* lines 683-684 and 694-703: the defaults and the param, value pairs
OriginSizeOf(originOpt) == IF originOpt = NotGiven THEN "single" ELSE originOpt[1]

\* ShiftOf with shift_def = 0
ShiftOfZeroDefault(shiftOpt, map_dimension) ==
    IF shiftOpt = NotGiven THEN [k \in 1..map_dimension |-> 0] ELSE shiftOpt[1]

\* lines 687-692: shift_def = 1 on every axis
ShiftOf(shiftOpt, map_dimension) ==
    IF shiftOpt = NotGiven THEN [k \in 1..map_dimension |-> 1] ELSE shiftOpt[1]

\* the 0-based index tuples of an array of the given shape
Indices(shape) ==
    IF Len(shape) = 2
    THEN (0..(shape[1] - 1)) \X (0..(shape[2] - 1))
    ELSE (0..(shape[1] - 1)) \X (0..(shape[2] - 1)) \X (0..(shape[3] - 1))

\* lines 642-732; dims is <<Nx, Ny>> when Nz is None, else <<Nx, Ny, Nz>>.
\* The field is kept squared: r2 = r_x^2 + r_y^2 (+ r_z^2), r = sqrt(r2).
makePixelMap(dims, originOpt, shiftOpt) ==
    LET map_dimension == Len(dims)
        origin_size == OriginSizeOf(originOpt)
        shift == ShiftOf(shiftOpt, map_dimension)
    IN  IF origin_size \notin {"single", "double"}
        THEN [status |-> "AssertionError", shape |-> <<>>, r2 |-> <<>>]
        ELSE IF Len(shift) # map_dimension
        THEN [status |-> "AssertionError", shape |-> <<>>, r2 |-> <<>>]
        ELSE
          LET n == [k \in 1..map_dimension |->
                       createPixelDim(dims[k], origin_size, shift[k])]
              shape == [k \in 1..map_dimension |-> Len(n[k])]
          IN  [status |-> "ok",
               shape |-> shape,
               r2 |-> [idx \in Indices(shape) |->
                          IF map_dimension = 2
                          THEN Sq(n[1][idx[1] + 1]) + Sq(n[2][idx[2] + 1])
                          ELSE Sq(n[1][idx[1] + 1]) + Sq(n[2][idx[2] + 1])
                               + Sq(n[3][idx[3] + 1])]]

(***************************************************************************)
(* makeDisc, makeBall                                                      *)
(***************************************************************************)
\* line 472: assert (0 <= cx < Nx) and (0 <= cy < Ny)
DiscCentreAccepted(Nx, Ny, cx, cy) ==
    (0 <= cx /\ cx < Nx) /\ (0 <= cy /\ cy < Ny)

\* WithinRadius with r < radius
WithinRadiusStrict(r2, radius) == radius >= 0 /\ r2 < Sq(radius)

\* lines 481 and 417: the mask r <= radius, with r = sqrt(r2) >= 0
WithinRadius(r2, radius) == radius >= 0 /\ r2 <= Sq(radius)

\* CentreShift with floor in place of ceil
CentreShiftFloor(c, N) == c - FloorHalf(N)

\* lines 484-485 and 420-422
CentreShift(c, N) == c - CeilHalf(N)

\* np.roll along one axis: the element at index i moves to (i + shift) mod N
Rolled(i, shift, N) == (i + shift) % N

\* lines 432-491
makeDisc(Nx, Ny, cx, cy, radius) ==
    LET ccx == ZeroToMidpoint(cx, Nx)
        ccy == ZeroToMidpoint(cy, Ny)
        r == makePixelMap(<<Nx, Ny>>, NotGiven, << <<0, 0>> >>)
        sx == CentreShift(ccx, Nx)
        sy == CentreShift(ccy, Ny)
    IN  IF ~DiscCentreAccepted(Nx, Ny, ccx, ccy)
        THEN [status |-> "AssertionError", disc |-> {}, centre |-> <<ccx, ccy>>]
        ELSE IF r.shape # <<Nx, Ny>>
        THEN [status |-> "IndexError", disc |-> {}, centre |-> <<ccx, ccy>>]
        ELSE [status |-> "ok",
              disc |-> { <<Rolled(idx[1], sx, Nx), Rolled(idx[2], sy, Ny)>> :
                           idx \in { i \in Indices(<<Nx, Ny>>) :
                                       WithinRadius(r.r2[i], radius) } },
              centre |-> <<ccx, ccy>>]

\* lines 366-429 (binary = False)
makeBall(Nx, Ny, Nz, cx, cy, cz, radius) ==
    LET ccx == ZeroToMidpoint(cx, Nx)
        ccy == ZeroToMidpoint(cy, Ny)
        ccz == ZeroToMidpoint(cz, Nz)
        r == makePixelMap(<<Nx, Ny, Nz>>, NotGiven, << <<0, 0, 0>> >>)
        sx == CentreShift(ccx, Nx)
        sy == CentreShift(ccy, Ny)
        sz == CentreShift(ccz, Nz)
    IN  IF r.shape # <<Nx, Ny, Nz>>
        THEN [status |-> "IndexError", ball |-> {}, centre |-> <<ccx, ccy, ccz>>]
        ELSE [status |-> "ok",
              ball |-> { <<Rolled(idx[1], sx, Nx), Rolled(idx[2], sy, Ny),
                           Rolled(idx[3], sz, Nz)>> :
                           idx \in { i \in Indices(<<Nx, Ny, Nz>>) :
                                       WithinRadius(r.r2[i], radius) } },
              centre |-> <<ccx, ccy, ccz>>]

(***************************************************************************)
(* makeArc                                                                 *)
(***************************************************************************)
\* the radius of curvature after lines 1162-1165: a whole number (line 1163)
\* or float('inf') (line 1165)
Finite(r) == [inf |-> FALSE, val |-> r]

Infinite == [inf |-> TRUE, val |-> 0]

\* the radius argument: val + half/2 grid points (half is 0 or 1), or
\* infinity
RadiusArg(val, half) == [inf |-> FALSE, val |-> val, half |-> half]

InfiniteArg == [inf |-> TRUE, val |-> 0, half |-> 0]

\* lines 1162-1165: radius = int(radius) drops the fraction of a radius
\* >= 0; for infinity int() raises OverflowError and the float is kept
IntRadius(radius) == IF radius.inf THEN Infinite ELSE Finite(radius.val)

\* lines 1168-1186, in the order of the checks; "none" when all pass
ArcInputError(grid_size, arc_pos, radius, diameter, focus_pos) ==
    IF grid_size[1] < 1 \/ grid_size[2] < 1 THEN "grid size"
    ELSE IF ~radius.inf /\ radius.val <= 0 THEN "radius"
    ELSE IF diameter <= 0 THEN "diameter"
    ELSE IF \/ arc_pos[1] < 1 \/ arc_pos[2] < 1
            \/ arc_pos[1] > grid_size[1] \/ arc_pos[2] > grid_size[2]
    THEN "centre"
    ELSE IF ~radius.inf /\ diameter > 2 * radius.val THEN "diameter > 2 radius"
    ELSE IF diameter % 2 # 1 THEN "even diameter"
    ELSE IF arc_pos = focus_pos THEN "focus"
    ELSE "none"

\* round(radius / distance_cf * delta) for distance_cf = sqrt(dist2): the
\* whole number k (signed like delta) with |radius*delta/distance_cf - k| < 1/2;
\* the quotient is never halfway between two whole numbers
RoundScaled(radius, delta, dist2) ==
    LET n2 == 4 * Sq(radius) * Sq(delta)
        k == CHOOSE j \in 0..radius :
                 /\ Sq(2 * j + 1) * dist2 > n2
                 /\ (j = 0 \/ Sq(2 * j - 1) * dist2 <= n2)
    IN  IF delta < 0 THEN -k ELSE k

\* lines 1203-1206
ArcCentre(arc_pos, radius, focus_pos) ==
    LET dist2 == Sq(arc_pos[1] - focus_pos[1]) + Sq(arc_pos[2] - focus_pos[2])
    IN  <<arc_pos[1] + RoundScaled(radius, focus_pos[1] - arc_pos[1], dist2),
          arc_pos[2] + RoundScaled(radius, focus_pos[2] - arc_pos[2], dist2)>>

\* lines 1212-1240: the point p stays in the arc unless
\* theta = arccos(v1.v2 / (l1*l2)) > half_arc_angle = arcsin(diameter/2/radius),
\* that is unless cos(theta) < sqrt(4 radius^2 - diameter^2) / (2 radius);
\* with l1*l2 = 0 theta is nan and the comparison is false
ArcKeeps(p, c, arc_pos, radius, diameter) ==
    LET v1 == <<arc_pos[1] - c[1], arc_pos[2] - c[2]>>
        v2 == <<p[1] - c[1], p[2] - c[2]>>
        dot == v1[1] * v2[1] + v1[2] * v2[2]
        n1 == Sq(v1[1]) + Sq(v1[2])
        n2 == Sq(v2[1]) + Sq(v2[2])
    IN  IF n1 * n2 = 0 THEN TRUE
        ELSE /\ dot >= 0
             /\ 4 * Sq(radius) * Sq(dot) >= (4 * Sq(radius) - Sq(diameter)) * n1 * n2

\* lines 1218-1225: matlab_find and ind2sub give back the 1-based point of a
\* set cell
ind2sub(cell) == <<cell[1] + 1, cell[2] + 1>>

\* ArcDirection without the rotation by pi/2: arctan((fx - ax) / (fy - ay))
ArcDirectionUnrotated(arc_pos, focus_pos) ==
    LET dx == focus_pos[1] - arc_pos[1]
        dy == focus_pos[2] - arc_pos[2]
    IN  IF dy = 0 THEN (IF dx > 0 THEN [q4 |-> 1, p |-> 0, q |-> 1]
                        ELSE [q4 |-> -1, p |-> 0, q |-> 1])
        ELSE IF dx = 0 THEN [q4 |-> 0, p |-> 0, q |-> 1]
        ELSE IF (dx > 0) = (dy > 0) THEN [q4 |-> 0, p |-> Abs(dx), q |-> Abs(dy)]
        ELSE [q4 |-> -1, p |-> Abs(dy), q |-> Abs(dx)]

\* line 1244: ang = arctan((fx - ax) / (fy - ay)) + pi/2
ArcDirection(arc_pos, focus_pos) ==
    LET dx == focus_pos[1] - arc_pos[1]
        dy == focus_pos[2] - arc_pos[2]
    IN  IF dy = 0 THEN (IF dx > 0 THEN [q4 |-> 2, p |-> 0, q |-> 1]
                        ELSE [q4 |-> 0, p |-> 0, q |-> 1])
        ELSE IF dx = 0 THEN [q4 |-> 1, p |-> 0, q |-> 1]
        ELSE IF (dx > 0) = (dy > 0) THEN [q4 |-> 1, p |-> Abs(dx), q |-> Abs(dy)]
        ELSE [q4 |-> 0, p |-> Abs(dy), q |-> Abs(dx)]

\* ang + np.pi
PlusPi(angle) == [q4 |-> angle.q4 + 2, p |-> angle.p, q |-> angle.q]

ArcResult(status, arc, c) == [status |-> status, arc |-> arc, c |-> c]

\* lines 1197-1240
makeArcFinite(Nx, Ny, arc_pos, radius, diameter, focus_pos) ==
    LET c == ArcCentre(arc_pos, radius, focus_pos)
        circle == makeCircle(Nx, Ny, c[1], c[2], radius, NoArc)
    IN  ArcResult("ok",
                  { cell \in circle.circle :
                      ArcKeeps(ind2sub(cell), c, arc_pos, radius, diameter) },
                  c)

\* makeArcInfinite with the line at ang alone
makeArcOneLine(Nx, Ny, arc_pos, diameter, focus_pos) ==
    LET ang == ArcDirection(arc_pos, focus_pos)
        l1 == makeLine(Nx, Ny, arc_pos, NoPoint, ang, (diameter - 1) \div 2)
    IN  IF l1.status # "ok" THEN ArcResult(l1.status, {}, <<>>)
        ELSE ArcResult("ok", l1.line, <<>>)

\* lines 1241-1250
makeArcInfinite(Nx, Ny, arc_pos, diameter, focus_pos) ==
    LET ang == ArcDirection(arc_pos, focus_pos)
        l1 == makeLine(Nx, Ny, arc_pos, NoPoint, ang, (diameter - 1) \div 2)
        l2 == makeLine(Nx, Ny, arc_pos, NoPoint, PlusPi(ang), (diameter - 1) \div 2)
    IN  IF l1.status # "ok" THEN ArcResult(l1.status, {}, <<>>)
        ELSE IF l2.status # "ok" THEN ArcResult(l2.status, {}, <<>>)
        ELSE ArcResult("ok", l1.line \cup l2.line, <<>>)

\* lines 1155-1251
makeArc(grid_size, arc_pos, radiusArg, diameter, focus_pos) ==
    LET radius == IntRadius(radiusArg)
    IN  IF ArcInputError(grid_size, arc_pos, radius, diameter, focus_pos) # "none"
        THEN ArcResult("ValueError", {}, <<>>)
        ELSE IF ~radius.inf
        THEN makeArcFinite(grid_size[1], grid_size[2], arc_pos, radius.val, diameter,
                           focus_pos)
        ELSE makeArcInfinite(grid_size[1], grid_size[2], arc_pos, diameter, focus_pos)

(***************************************************************************)
(* get_spaced_points                                                       *)
(***************************************************************************)
\* A sample is kept as the fraction <<k, div>> of the way from start to stop
\* it lies at, on the linear scale for np.linspace and on the logarithmic
\* scale for np.geomspace: <<0, div>> is start and <<div, div>> is stop.
\* np.linspace(start, stop, num): num < 0 raises ValueError; otherwise
\* div = num - 1, step = (stop - start) / div when div > 0, the samples are
\* start + k * step for k = 0 .. num - 1, and the last one is set to stop
\* when num > 1; for num = 1 the only sample is start
Samples(num) ==
    [i \in 1..num |-> <<i - 1, Max2(num - 1, 1)>>]

SpacedResult(status, points) == [status |-> status, points |-> points]

\* line 36: np.linspace(start, stop, num=n)
linspace(start, stop, num) ==
    IF num < 0 THEN SpacedResult("ValueError", <<>>)
    ELSE SpacedResult("ok", Samples(num))

\* line 38: np.geomspace(start, stop, num=n), which refuses an end equal to 0
\* and otherwise is np.linspace on the logarithms
geomspace(start, stop, num) ==
    IF start = 0 \/ stop = 0 THEN SpacedResult("ValueError", <<>>)
    ELSE linspace(start, stop, num)

\* lines 14-41
get_spaced_points(start, stop, n, spacing) ==
    IF stop <= start THEN SpacedResult("ValueError", <<>>)
    ELSE IF spacing = "linear" THEN linspace(start, stop, n)
    ELSE IF spacing = "log" THEN geomspace(start, stop, n)
    ELSE SpacedResult("ValueError", <<>>)

(***************************************************************************)
(* Calls: the routine and the arguments a behaviour starts with.           *)
(***************************************************************************)
Sizes == 1..MaxN

\* points in the grid and one step around it
PointsAround(Nx, Ny) == (0..(Nx + 1)) \X (0..(Ny + 1))

\* tangents p/q of the oblique angles
Slopes ==
    { <<n, d>> \in (1..MaxSlope) \X (1..MaxSlope) : n = 1 \/ d = 1 }

\* q4 quarter turns plus atan(p/q); p = 0 is the exact multiple of pi/2
Angles ==
    { [q4 |-> k, p |-> 0, q |-> 1] : k \in -2..5 }
    \cup { [q4 |-> k, p |-> t[1], q |-> t[2]] : k \in -2..1, t \in Slopes }

LineAtoBCall ==
    \E nx \in Sizes, ny \in Sizes :
        \E s \in PointsAround(nx, ny), e \in PointsAround(nx, ny) :
            call = [op |-> "makeLine", mode |-> "AtoB", Nx |-> nx, Ny |-> ny,
                    startpoint |-> s, endpoint |-> e, angle |-> NoAngle,
                    length |-> 0]

LineAngledCall ==
    \E nx \in Sizes, ny \in Sizes :
        \E s \in PointsAround(nx, ny), g \in Angles, l \in 0..MaxLen :
            call = [op |-> "makeLine", mode |-> "angled", Nx |-> nx, Ny |-> ny,
                    startpoint |-> s, endpoint |-> NoPoint, angle |-> g,
                    length |-> l]

\* grid sizes of the circle and disc calls
ShapeSizes == 1..MaxShapeN

\* centre coordinates in the grid and two steps around it
Around(N) == (-1)..(N + 1)

ArcAngles == {NoArc} \cup { <<k>> : k \in (-1)..5 }

\* small radii on every grid and centre, and larger radii about the cells of
\* a 2 x 2 grid
CircleCall ==
    \/ \E nx \in ShapeSizes, ny \in ShapeSizes :
          \E x \in Around(nx), y \in Around(ny), r \in 0..MaxRadius, g \in ArcAngles :
              call = [op |-> "makeCircle", Nx |-> nx, Ny |-> ny, cx |-> x, cy |-> y,
                      radius |-> r, arc_angle |-> g]
    \/ \E x \in 1..2, y \in 1..2, r \in (MaxRadius + 1)..MaxLoopRadius, g \in ArcAngles :
          call = [op |-> "makeCircle", Nx |-> 2, Ny |-> 2, cx |-> x, cy |-> y,
                  radius |-> r, arc_angle |-> g]

DiscCall ==
    \E nx \in ShapeSizes, ny \in ShapeSizes :
        \E x \in Around(nx), y \in Around(ny), r \in 0..MaxRadius :
            call = [op |-> "makeDisc", Nx |-> nx, Ny |-> ny, cx |-> x, cy |-> y,
                    radius |-> r]

BallSizes == (MaxBallN - 1)..MaxBallN

BallCall ==
    \E nx \in BallSizes, ny \in BallSizes, nz \in BallSizes :
        \E x \in 0..(nx + 1), y \in 0..(ny + 1), z \in 0..(nz + 1), r \in 0..MaxBallRadius :
            call = [op |-> "makeBall", Nx |-> nx, Ny |-> ny, Nz |-> nz,
                    cx |-> x, cy |-> y, cz |-> z, radius |-> r]

OriginOptions == {NotGiven, <<"single">>, <<"double">>, <<"triple">>}

PixelDimCall ==
    \E n \in 1..MaxDim, o \in {"single", "double"}, sh \in {0, 1} :
        call = [op |-> "createPixelDim", Nx |-> n, origin_size |-> o, shift |-> sh]

PixelMapCall ==
    \/ \E nx \in Sizes, ny \in Sizes, o \in OriginOptions :
           \E sh \in {NotGiven} \cup { <<v>> : v \in ({0, 1} \X {0, 1}) \cup {<<1, 1, 1>>} } :
               call = [op |-> "makePixelMap", dims |-> <<nx, ny>>,
                       originOpt |-> o, shiftOpt |-> sh]
    \/ \E nx \in Sizes, ny \in Sizes, nz \in Sizes, o \in OriginOptions :
           \E sh \in {NotGiven} \cup { <<v>> : v \in ({0, 1} \X {0, 1} \X {0, 1}) \cup {<<1, 1>>} } :
               call = [op |-> "makePixelMap", dims |-> <<nx, ny, nz>>,
                       originOpt |-> o, shiftOpt |-> sh]

ArcSizes == 0..MaxArcN

Radii == {InfiniteArg} \cup { RadiusArg(r, h) : r \in 0..MaxRadius, h \in {0, 1} }

\* larger grids for the arcs of infinite radius
FlatArcSizes == (MaxArcN + 1)..MaxFlatN

ArcCall ==
    \/ \E nx \in ArcSizes, ny \in ArcSizes :
           \E a \in PointsAround(nx, ny), f \in PointsAround(nx, ny), r \in Radii, d \in 0..MaxDiameter :
               call = [op |-> "makeArc", grid_size |-> <<nx, ny>>, arc_pos |-> a,
                       radius |-> r, diameter |-> d, focus_pos |-> f]
    \/ \E nx \in FlatArcSizes, ny \in FlatArcSizes :
           \E a \in PointsAround(nx, ny), dx \in -1..1, dy \in -1..1, d \in 0..MaxFlatDiameter :
               call = [op |-> "makeArc", grid_size |-> <<nx, ny>>, arc_pos |-> a,
                       radius |-> InfiniteArg, diameter |-> d,
                       focus_pos |-> <<a[1] + dx, a[2] + dy>>]

SpacedCall ==
    \E a \in 0..MaxStop, b \in 0..MaxStop, k \in (-1)..MaxPoints :
        \E sp \in {"linear", "log", "cubic"} :
            call = [op |-> "get_spaced_points", start |-> a, stop |-> b, n |-> k,
                    spacing |-> sp]

NoRet == [status |-> "pending"]

Init ==
    /\ phase = "call"
    /\ ret = NoRet
    /\ \/ LineAtoBCall
       \/ LineAngledCall
       \/ CircleCall
       \/ DiscCall
       \/ BallCall
       \/ PixelDimCall
       \/ PixelMapCall
       \/ ArcCall
       \/ SpacedCall

CallMakeLine ==
    /\ phase = "call"
    /\ call.op = "makeLine"
    /\ ret' = makeLine(call.Nx, call.Ny, call.startpoint, call.endpoint,
                       call.angle, call.length)
    /\ phase' = "return"
    /\ UNCHANGED call

CallMakeCircle ==
    /\ phase = "call"
    /\ call.op = "makeCircle"
    /\ ret' = makeCircle(call.Nx, call.Ny, call.cx, call.cy, call.radius,
                         call.arc_angle)
    /\ phase' = "return"
    /\ UNCHANGED call

CallMakeDisc ==
    /\ phase = "call"
    /\ call.op = "makeDisc"
    /\ ret' = makeDisc(call.Nx, call.Ny, call.cx, call.cy, call.radius)
    /\ phase' = "return"
    /\ UNCHANGED call

CallMakeBall ==
    /\ phase = "call"
    /\ call.op = "makeBall"
    /\ ret' = makeBall(call.Nx, call.Ny, call.Nz, call.cx, call.cy, call.cz,
                       call.radius)
    /\ phase' = "return"
    /\ UNCHANGED call

CallCreatePixelDim ==
    /\ phase = "call"
    /\ call.op = "createPixelDim"
    /\ ret' = [status |-> "ok",
               nx |-> createPixelDim(call.Nx, call.origin_size, call.shift)]
    /\ phase' = "return"
    /\ UNCHANGED call

CallMakePixelMap ==
    /\ phase = "call"
    /\ call.op = "makePixelMap"
    /\ ret' = makePixelMap(call.dims, call.originOpt, call.shiftOpt)
    /\ phase' = "return"
    /\ UNCHANGED call

CallMakeArc ==
    /\ phase = "call"
    /\ call.op = "makeArc"
    /\ ret' = makeArc(call.grid_size, call.arc_pos, call.radius, call.diameter,
                      call.focus_pos)
    /\ phase' = "return"
    /\ UNCHANGED call

CallGetSpacedPoints ==
    /\ phase = "call"
    /\ call.op = "get_spaced_points"
    /\ ret' = get_spaced_points(call.start, call.stop, call.n, call.spacing)
    /\ phase' = "return"
    /\ UNCHANGED call

Next ==
    \/ CallMakeLine
    \/ CallMakeCircle
    \/ CallMakeDisc
    \/ CallMakeBall
    \/ CallCreatePixelDim
    \/ CallMakePixelMap
    \/ CallMakeArc
    \/ CallGetSpacedPoints

Spec == Init /\ [][Next]_vars

(***************************************************************************)
(* makeLine, one loop iteration at a time.  While the loop runs, ret holds  *)
(* the loop variables x, y and the writes made so far.                     *)
(***************************************************************************)
LoopState(x, y, tr) == [status |-> "running", x |-> x, y |-> y, trace |-> tr]

\* the calls the input checks are meant to accept: every point in the grid
ValidLineCalls ==
    UNION { UNION { { [op |-> "makeLine", mode |-> "AtoB", Nx |-> nx, Ny |-> ny,
                       startpoint |-> s, endpoint |-> e, angle |-> NoAngle,
                       length |-> 0] :
                        s \in (1..nx) \X (1..ny), e \in (1..nx) \X (1..ny) }
                    \cup
                    { [op |-> "makeLine", mode |-> "angled", Nx |-> nx, Ny |-> ny,
                       startpoint |-> s, endpoint |-> NoPoint, angle |-> g,
                       length |-> l] :
                        s \in (1..nx) \X (1..ny), g \in Angles, l \in 0..MaxLen } :
                    ny \in Sizes } : nx \in Sizes }

\* before the call: no arguments yet
NoCall == [op |-> "none"]

LineInit ==
    /\ phase = "idle"
    /\ call = NoCall
    /\ ret = NoRet

\* the caller passes the arguments
LineCall ==
    /\ phase = "idle"
    /\ phase' = "call"
    /\ call' \in ValidLineCalls
    /\ UNCHANGED ret

\* lines 868, 901, 934 and 958 (and its copies): the condition of the while
\* loop on the loop variables held in ret
LoopGoesOn ==
    IF call.mode = "AtoB"
    THEN LET a == ToZeroBased(call.startpoint)
             b == ToZeroBased(call.endpoint)
         IN  IF SlopeClass(a, b) = "shallow"
             THEN ret.x < Max2(a[1], b[1])
             ELSE ret.y < Max2(a[2], b[2])
    ELSE ShorterThan(call.startpoint, ret.x, ret.y, call.length)

\* the point the body of the loop moves to
LoopNextPoint ==
    IF call.mode = "AtoB"
    THEN LET a == ToZeroBased(call.startpoint)
             b == ToZeroBased(call.endpoint)
             cls == SlopeClass(a, b)
         IN  CASE cls = "shallow" -> ShallowNext(a, b, ret.x, ret.y)
               [] cls = "steep" -> SteepNext(a, b, ret.x, ret.y)
               [] OTHER -> VerticalNext(ret.x, ret.y)
    ELSE LET ang == NormaliseAngle(call.angle)
             sec == Sector(ang)
         IN  IF IsAxis(sec) THEN AxisNext(sec, ret.x, ret.y)
             ELSE ObliqueNext(sec, Gradient(sec, ang), call.startpoint, ret.x, ret.y)

\* the write the body of the loop makes for the point nxt
LoopWrite(nxt) ==
    IF call.mode = "AtoB"
    THEN LET cls == SlopeClass(ToZeroBased(call.startpoint), ToZeroBased(call.endpoint))
         IN  CASE cls = "shallow" -> ShallowWrite(nxt[1], nxt[2])
               [] cls = "steep" -> SteepWrite(nxt[1], nxt[2])
               [] OTHER -> VerticalWrite(nxt[1], nxt[2])
    ELSE AngledWrite(nxt[1], nxt[2])

\* lines 788-866 (888-899, 921-932) and 946-958: the input checks and the
\* first point
LineEnter ==
    /\ phase = "call"
    /\ call.op = "makeLine"
    /\ UNCHANGED call
    /\ IF call.mode = "AtoB"
       THEN LET a == ToZeroBased(call.startpoint)
                b == ToZeroBased(call.endpoint)
                s == AtoBFirst(a, b, SlopeClass(a, b))
            IN  IF a = b \/ AtoBOutOfGrid(call.Nx, call.Ny, a, b)
                THEN /\ ret' = LineResult("ValueError", <<>>, call.Nx, call.Ny)
                     /\ phase' = "return"
                ELSE /\ ret' = LoopState(s[1], s[2], <<Wr(s[1], s[2], s[1], s[2])>>)
                     /\ phase' = "loop"
       ELSE LET w == AngledWrite(call.startpoint[1], call.startpoint[2])
            IN  IF ~WriteOK(w, call.Nx, call.Ny)
                THEN /\ ret' = LineResult("IndexError", <<w>>, call.Nx, call.Ny)
                     /\ phase' = "return"
                ELSE /\ ret' = LoopState(call.startpoint[1], call.startpoint[2], <<w>>)
                     /\ phase' = "loop"

\* the body of the loop for the next point nxt: what ret holds after it and
\* whether the loop was left (by the break at a grid edge, or by the
\* IndexError of a write)
LoopBodyAt(nxt) ==
    LET w == LoopWrite(nxt)
    IN  IF call.mode = "angled"
           /\ EdgeBreak(Sector(NormaliseAngle(call.angle)), nxt[1], nxt[2],
                        call.Nx, call.Ny)
        THEN [ret |-> LineResult("ok", ret.trace, call.Nx, call.Ny),
              phase |-> "return"]
        ELSE IF ~WriteOK(w, call.Nx, call.Ny)
        THEN [ret |-> LineResult("IndexError", Append(ret.trace, w), call.Nx, call.Ny),
              phase |-> "return"]
        ELSE [ret |-> LoopState(nxt[1], nxt[2], Append(ret.trace, w)),
              phase |-> "loop"]

\* the next point is worked out once per iteration
LoopBody == CHOOSE out \in { LoopBodyAt(nxt) : nxt \in {LoopNextPoint} } : TRUE

\* lines 868-884, 901-917, 934-940 and the loops of 958-1150: one iteration
LineIterate ==
    /\ phase = "loop"
    /\ LoopGoesOn
    /\ Len(ret.trace) < Fuel
    /\ \E out \in {LoopBody} :
          /\ ret' = out.ret
          /\ phase' = out.phase
    /\ UNCHANGED call

\* line 1152 (and the end of the point-to-point loops): the loop condition
\* is false, the grid is returned
LineLeave ==
    /\ phase = "loop"
    /\ ~LoopGoesOn
    /\ ret' = LineResult("ok", ret.trace, call.Nx, call.Ny)
    /\ phase' = "return"
    /\ UNCHANGED call

LineNext ==
    \/ LineCall
    \/ LineEnter
    \/ LineIterate
    \/ LineLeave

\* the interpreter keeps running the call: an enabled step is taken
LineSpec == LineInit /\ [][LineNext]_vars /\ WF_vars(LineNext)

(***************************************************************************)
(* Termination of makeLine (specification LineSpec).                       *)
(***************************************************************************)
\* the loop variables (x, y) after each iteration so far, the first point
\* included
Visited == [k \in 1..Len(ret.trace) |-> ret.trace[k].pt]

\* the coordinate the point-to-point loop of the call steps along: x when
\* |m| < 1, else y
StepCoord(pt) ==
    IF SlopeClass(ToZeroBased(call.startpoint), ToZeroBased(call.endpoint)) = "shallow"
    THEN pt[1]
    ELSE pt[2]

\* the largest value of that coordinate over the two end points (0-based)
FarCoord ==
    Max2(StepCoord(ToZeroBased(call.startpoint)), StepCoord(ToZeroBased(call.endpoint)))

SqDistFromStart(pt) == Sq(pt[1] - call.startpoint[1]) + Sq(pt[2] - call.startpoint[2])

Neighbours(p, q) == p # q /\ Abs(p[1] - q[1]) <= 1 /\ Abs(p[2] - q[2]) <= 1

\* every iteration made so far moved to a neighbouring cell; point-to-point,
\* the stepping coordinate never went back, never stayed unchanged twice in a
\* row and never passed the far end; in angle mode the cell is strictly
\* farther from the start point than the one before
LoopProgress ==
    phase \in {"loop", "return"} =>
        /\ \A k \in 1..(Len(Visited) - 1) :
              /\ Neighbours(Visited[k], Visited[k + 1])
              /\ IF call.mode = "AtoB"
                 THEN /\ StepCoord(Visited[k + 1]) >= StepCoord(Visited[k])
                      /\ StepCoord(Visited[k + 1]) <= FarCoord
                 ELSE SqDistFromStart(Visited[k + 1]) > SqDistFromStart(Visited[k])
        /\ call.mode = "AtoB" =>
              \A k \in 1..(Len(Visited) - 2) :
                  StepCoord(Visited[k + 2]) > StepCoord(Visited[k])
        /\ Len(ret.trace) < Fuel

\* the call returned a grid; point-to-point, the loop reached the far end's
\* stepping coordinate; in angle mode only the first point-to-point check
\* can raise, and it does not apply
ReturnedAtFarEnd ==
    phase = "return" =>
        IF call.mode = "AtoB" /\ call.startpoint = call.endpoint
        THEN ret.status = "ValueError"
        ELSE /\ ret.status = "ok"
             /\ call.mode = "AtoB" => StepCoord(Visited[Len(Visited)]) = FarCoord

\* C17: every makeLine call with valid inputs terminates: point-to-point, the
\* stepping loop reaches the far end point's x (or y) coordinate after
\* finitely many iterations and does not keep choosing candidates that leave
\* the stepping coordinate unchanged; in angle mode every iteration moves to
\* a neighbouring cell strictly farther from the start point, until the
\* length is reached or the break at the grid edge fires.
C17_MakeLineTerminates ==
    /\ <>(phase = "return")
    /\ [](LoopProgress /\ ReturnedAtFarEnd)

\* a point-to-point call that returned after three iterations of its loop
C17_ThreeIterations ==
    /\ phase = "return"
    /\ call.mode = "AtoB"
    /\ ret.status = "ok"
    /\ Len(ret.trace) = 4

(***************************************************************************)
(* Properties of makeLine.                                                 *)
(***************************************************************************)
Returned(op) == phase = "return" /\ call.op = op

LineReturned(mode) == Returned("makeLine") /\ call.mode = mode

\* a point-to-point call the input checks are meant to accept
AtoBValid ==
    /\ LineReturned("AtoB")
    /\ InGrid(call.startpoint, call.Nx, call.Ny)
    /\ InGrid(call.endpoint, call.Nx, call.Ny)
    /\ call.startpoint # call.endpoint

\* the cells written, in the order of the writes
WrittenCell(k) ==
    <<Wrap(ret.trace[k].idx[1], call.Nx), Wrap(ret.trace[k].idx[2], call.Ny)>>

\* C1: in point-to-point mode, for distinct in-grid endpoints of every slope
\* class, the returned grid has the start cell and the end cell set, every
\* set cell lies in the bounding rectangle of the two endpoints, and every
\* traced cell is written at its own 0-based index (none shifted by one,
\* none through a negative index).
C1_AtoBEndpointsAndOffset ==
    AtoBValid =>
        LET a == ToZeroBased(call.startpoint)
            b == ToZeroBased(call.endpoint)
        IN  /\ ret.status = "ok"
            /\ a \in ret.line
            /\ b \in ret.line
            /\ \A c \in ret.line :
                  /\ Min2(a[1], b[1]) <= c[1] /\ c[1] <= Max2(a[1], b[1])
                  /\ Min2(a[2], b[2]) <= c[2] /\ c[2] <= Max2(a[2], b[2])
            /\ \A k \in 1..Len(ret.trace) :
                  ret.trace[k].idx = ret.trace[k].pt

\* the |m| < 1 branch ran at least one step of its loop
C1_ShallowStepTaken ==
    /\ AtoBValid
    /\ SlopeClass(ToZeroBased(call.startpoint), ToZeroBased(call.endpoint)) = "shallow"
    /\ ret.status = "ok"
    /\ Len(ret.trace) >= 2

\* an angled call that starts inside the grid
AngledInGrid ==
    /\ LineReturned("angled")
    /\ InGrid(call.startpoint, call.Nx, call.Ny)

\* the cell the stepping rule of the call's sector would move to from pt
AngledNextOf(pt) ==
    LET ang == NormaliseAngle(call.angle)
        sec == Sector(ang)
    IN  IF IsAxis(sec) THEN AxisNext(sec, pt[1], pt[2])
        ELSE ObliqueNext(sec, Gradient(sec, ang), call.startpoint, pt[1], pt[2])

\* C2: in angle mode with an in-grid start, in each of the 8 sectors, the
\* call returns without error, every write is that of a traced cell inside
\* [1,Nx] x [1,Ny] at its own 0-based index (no wraparound), and the trace
\* ends only when the length is reached or the next cell is outside the
\* grid (no in-grid cell of the last row or column is skipped).
C2_AngledTruncation ==
    AngledInGrid =>
        /\ ret.status = "ok"
        /\ \A k \in 1..Len(ret.trace) :
              /\ InGrid(ret.trace[k].pt, call.Nx, call.Ny)
              /\ ret.trace[k].idx = ToZeroBased(ret.trace[k].pt)
        /\ LET last == ret.trace[Len(ret.trace)].pt
           IN  \/ ~ShorterThan(call.startpoint, last[1], last[2], call.length)
               \/ ~InGrid(AngledNextOf(last), call.Nx, call.Ny)

\* the (pi/2, pi) sector stepped to a cell with x = 0 and wrote it
C2_WrapInSecondSector ==
    /\ AngledInGrid
    /\ Sector(NormaliseAngle(call.angle)) = "halfpi_pi"
    /\ ret.status = "ok"
    /\ \E k \in 1..Len(ret.trace) : ret.trace[k].pt[1] = 0

\* C3: a call whose start point is outside [1,Nx] x [1,Ny] fails with the
\* validation error and returns no grid, in both modes.
C3_StartOutsideRejected ==
    (Returned("makeLine") /\ ~InGrid(call.startpoint, call.Nx, call.Ny)) =>
        ret.status = "ValueError"

\* an angled call from outside the grid returned a grid
C3_AngledOutsideReturns ==
    /\ LineReturned("angled")
    /\ ~InGrid(call.startpoint, call.Nx, call.Ny)
    /\ ret.status = "ok"
    /\ ret.line # {}

\* a call makeLine(Nx, Ny, (1, 1), (Nx, Ny)) with Nx, Ny >= 2
DiagonalCall ==
    /\ LineReturned("AtoB")
    /\ call.Nx >= 2 /\ call.Ny >= 2
    /\ call.startpoint = <<1, 1>>
    /\ call.endpoint = <<call.Nx, call.Ny>>

\* C10: makeLine(Nx, Ny, (1,1), (Nx,Ny)) sets exactly max(Nx, Ny) cells, and
\* in the order of the trace they never decrease in x nor in y.
C10_DiagonalMonotone ==
    DiagonalCall =>
        /\ ret.status = "ok"
        /\ Cardinality(ret.line) = Max2(call.Nx, call.Ny)
        /\ \A k \in 1..(Len(ret.trace) - 1) :
              /\ WrittenCell(k)[1] <= WrittenCell(k + 1)[1]
              /\ WrittenCell(k)[2] <= WrittenCell(k + 1)[2]

\* a diagonal of a grid with more rows than columns was traced
C10_WideDiagonal ==
    /\ DiagonalCall
    /\ call.Nx > call.Ny
    /\ ret.status = "ok"

(***************************************************************************)
(* Properties of makeCircle.                                               *)
(***************************************************************************)
\* the 1-based grid point of a 0-based cell
OneBased(c) == <<c[1] + 1, c[2] + 1>>

\* C4 as stated: every set cell is inside [1,Nx] x [1,Ny] and has angle
\* atan2(px - cx, py - cy) + pi <= the clamped arc_angle, so that
\* arc_angle = 0 sets no cell at all.
C4_EveryCellPassesBothFilters ==
    Returned("makeCircle") =>
        \A c \in ret.circle :
            /\ InGrid(OneBased(c), call.Nx, call.Ny)
            /\ WithinArc(c[1] + 1, c[2] + 1, ret.centre[1], ret.centre[2],
                         ClampArcAngle(call.arc_angle))

\* C4 amended: every set cell is inside [1,Nx] x [1,Ny] and either is the
\* first cardinal point (cx, cy - radius), which is written after the grid
\* check alone, or has angle atan2(px - cx, py - cy) + pi <= the clamped
\* arc_angle.
C4_AllButFirstCardinalFiltered ==
    Returned("makeCircle") =>
        \A c \in ret.circle :
            /\ InGrid(OneBased(c), call.Nx, call.Ny)
            /\ \/ OneBased(c) = FirstCardinal(ret.centre[1], ret.centre[2], call.radius)
               \/ WithinArc(c[1] + 1, c[2] + 1, ret.centre[1], ret.centre[2],
                            ClampArcAngle(call.arc_angle))

\* a partial arc: the first cardinal point and another cell are set, and a
\* candidate point inside the grid was left out for its angle
C4_ArcCutTheCircle ==
    /\ Returned("makeCircle")
    /\ ClampArcAngle(call.arc_angle) \in 1..3
    /\ call.radius >= 1
    /\ \E c \in ret.circle :
          OneBased(c) = FirstCardinal(ret.centre[1], ret.centre[2], call.radius)
    /\ \E c \in ret.circle :
          OneBased(c) # FirstCardinal(ret.centre[1], ret.centre[2], call.radius)
    /\ \E k \in 1..Len(ret.plotted) :
          /\ InGrid(ret.plotted[k], call.Nx, call.Ny)
          /\ <<ret.plotted[k][1] - 1, ret.plotted[k][2] - 1>> \notin ret.circle

\* C5: the centre and the radius are not constrained by the grid: for every
\* integer centre, in or out of the grid and with coordinates <= 0, the call
\* succeeds and returns exactly the in-grid section of the circle about the
\* requested (cx, cy) (blank when the circle misses the grid).
C5_CentredOnRequestedPoint ==
    Returned("makeCircle") =>
        /\ ret.status = "ok"
        /\ ret.circle = MidpointCircle(call.Nx, call.Ny, call.cx, call.cy, call.radius,
                                       ClampArcAngle(call.arc_angle)).circle

\* a centre with a coordinate of 0 was asked for
C5_ZeroCoordinateCentre ==
    /\ Returned("makeCircle")
    /\ (call.cx = 0 \/ call.cy = 0)
    /\ ret.circle # {}

(***************************************************************************)
(* Properties of makeDisc, makeBall, createPixelDim and makePixelMap.      *)
(***************************************************************************)
\* the centre after a 0 coordinate is replaced by the midpoint
MidpointIfZero(c, N) == IF c = 0 THEN (N \div 2) + 1 ELSE c

\* C7: makeDisc accepts a centre (a 0 coordinate replaced by the midpoint
\* floor(N/2)+1) exactly when 1 <= cx <= Nx and 1 <= cy <= Ny and fails with
\* an invalid-argument error for every other centre; makeBall validates no
\* centre.
C7_DiscAcceptsExactlyInGridCentres ==
    /\ Returned("makeDisc") =>
          LET c == <<MidpointIfZero(call.cx, call.Nx), MidpointIfZero(call.cy, call.Ny)>>
          IN  /\ (ret.status = "ok") <=> InGrid(c, call.Nx, call.Ny)
              /\ ret.status \in {"ok", "AssertionError"}
    /\ Returned("makeBall") => ret.status = "ok"

\* a disc was asked for on the last row or column of the grid
C7_CentreOnLastRow ==
    /\ Returned("makeDisc")
    /\ call.cx = call.Nx
    /\ call.cy \in 1..(call.Ny - 1)
    /\ ret.status = "AssertionError"

\* the distance from i to c around an axis of N points
CyclicDist(i, c, N) == Min2((i - c) % N, (c - i) % N)

\* C8: for an accepted centre (cx, cy) and integer radius r, the 1-based cell
\* (i, j) is set iff dx^2 + dy^2 <= r^2 with dx, dy the cyclic distances to
\* the centre; for r = 1 and Nx, Ny >= 3 exactly 5 cells are set, the centre
\* and its 4 axis neighbours.
C8_DiscIsCyclicDisc ==
    (Returned("makeDisc") /\ ret.status = "ok") =>
        LET cx == MidpointIfZero(call.cx, call.Nx)
            cy == MidpointIfZero(call.cy, call.Ny)
        IN  /\ \A i \in 1..call.Nx, j \in 1..call.Ny :
                  (<<i - 1, j - 1>> \in ret.disc)
                      <=> (Sq(CyclicDist(i, cx, call.Nx)) + Sq(CyclicDist(j, cy, call.Ny))
                              <= Sq(call.radius))
            /\ \A c \in ret.disc : c[1] \in 0..(call.Nx - 1) /\ c[2] \in 0..(call.Ny - 1)
            /\ (call.radius = 1 /\ call.Nx >= 3 /\ call.Ny >= 3) =>
                  /\ Cardinality(ret.disc) = 5
                  /\ <<cx - 1, cy - 1>> \in ret.disc

\* a disc of radius 1 centred on the first row, so that it crosses the edge
C8_DiscCrossesEdge ==
    /\ Returned("makeDisc")
    /\ ret.status = "ok"
    /\ call.radius = 1
    /\ call.Nx >= 3 /\ call.Ny >= 3
    /\ call.cx = 1
    /\ <<call.Nx - 1, MidpointIfZero(call.cy, call.Ny) - 1>> \in ret.disc

\* the number of zero entries of a vector
Zeros(nx) == Cardinality({ k \in 1..Len(nx) : nx[k] = 0 })

\* C9: createPixelDim returns exactly N consecutive-integer coordinates
\* for every parity of N, origin size and shift, with exactly one zero in
\* single mode and exactly two adjacent zeros in double mode, so that
\* makePixelMap returns a field of the shape of the grid.
C9_PixelDimHasNEntries ==
    /\ (Returned("createPixelDim") /\ call.Nx >= 2) =>
          /\ Len(ret.nx) = call.Nx
          /\ Zeros(ret.nx) = (IF call.origin_size = "single" THEN 1 ELSE 2)
          /\ \A k \in 1..(Len(ret.nx) - 1) :
                \/ ret.nx[k + 1] = ret.nx[k] + 1
                \/ (call.origin_size = "double" /\ ret.nx[k] = 0 /\ ret.nx[k + 1] = 0)
    /\ (Returned("makePixelMap") /\ ret.status = "ok") => ret.shape = call.dims

\* an even dimension with a double origin
C9_EvenDoubleOrigin ==
    /\ Returned("createPixelDim")
    /\ call.Nx % 2 = 0
    /\ call.origin_size = "double"
    /\ Len(ret.nx) < call.Nx

\* a full-aperture call whose whole circle fits inside the grid
FullCircleFits ==
    /\ Returned("makeCircle")
    /\ ClampArcAngle(call.arc_angle) = 4
    /\ ret.centre[1] - call.radius >= 1
    /\ ret.centre[1] + call.radius <= call.Nx
    /\ ret.centre[2] - call.radius >= 1
    /\ ret.centre[2] + call.radius <= call.Ny

\* the cell at offset (dx, dy) from the centre is set
SetAtOffset(dx, dy) ==
    <<ret.centre[1] + dx - 1, ret.centre[2] + dy - 1>> \in ret.circle

\* C11: with full aperture and the whole circle inside the grid, the set of
\* cells is invariant under the 8 reflections about the centre: if the cell at
\* offset (dx, dy) is set, so are those at (+-dx, +-dy) and (+-dy, +-dx).
C11_EightFoldSymmetry ==
    FullCircleFits =>
        \A c \in ret.circle :
            LET dx == c[1] + 1 - ret.centre[1]
                dy == c[2] + 1 - ret.centre[2]
            IN  \A sx \in {-1, 1}, sy \in {-1, 1} :
                    /\ SetAtOffset(sx * dx, sy * dy)
                    /\ SetAtOffset(sx * dy, sy * dx)

\* a circle inside the grid with a cell off the axes and off the diagonals,
\* whose 8 reflections are 8 different cells
C11_OctantCellSet ==
    /\ FullCircleFits
    /\ call.radius >= 2
    /\ \E c \in ret.circle :
          LET dx == c[1] + 1 - ret.centre[1]
              dy == c[2] + 1 - ret.centre[2]
          IN  dx # 0 /\ dy # 0 /\ Abs(dx) # Abs(dy)

\* a disc or ball call that returned a shape; the shape as a set of 0-based
\* cells, the grid size and the centre (after 0 was read as the midpoint)
ShapeReturned ==
    /\ phase = "return"
    /\ call.op \in {"makeDisc", "makeBall"}
    /\ ret.status = "ok"

ShapeCells == IF call.op = "makeDisc" THEN ret.disc ELSE ret.ball

ShapeGrid ==
    IF call.op = "makeDisc" THEN <<call.Nx, call.Ny>>
    ELSE <<call.Nx, call.Ny, call.Nz>>

\* the 1-based coordinates along axis k at which some cell is set
AxisExtent(k) == { c[k] + 1 : c \in ShapeCells }

\* odd radius on a grid with N > 2r + 1 on every axis
OddRadiusLargeGrid ==
    /\ call.op \in {"makeDisc", "makeBall"}
    /\ call.radius % 2 = 1
    /\ \A k \in 1..Len(ShapeGrid) : ShapeGrid[k] > 2 * call.radius + 1

\* the centre is at least radius cells away from every edge of the grid
CentreClearOfEdges ==
    \A k \in 1..Len(ShapeGrid) :
        /\ ret.centre[k] - call.radius >= 1
        /\ ret.centre[k] + call.radius <= ShapeGrid[k]

\* the centre is a cell of the grid
CentreInGrid ==
    \A k \in 1..Len(ShapeGrid) : ret.centre[k] >= 1 /\ ret.centre[k] <= ShapeGrid[k]

\* C12 as stated: for every odd radius r and every grid with N > 2r + 1 on
\* each axis, the set cells of a shape returned by makeDisc or makeBall
\* for a centre c of the grid span exactly the 2r + 1 consecutive grid points
\* c - r .. c + r along each axis.
C12_ExtentOnLargeGrid ==
    (ShapeReturned /\ OddRadiusLargeGrid /\ CentreInGrid) =>
        \A k \in 1..Len(ShapeGrid) :
              AxisExtent(k) = (ret.centre[k] - call.radius)..(ret.centre[k] + call.radius)

\* C12 amended: the same extent, for centres at least r cells away from
\* every edge of the grid.
C12_ExtentWhenClearOfEdges ==
    (phase = "return" /\ OddRadiusLargeGrid /\ CentreClearOfEdges) =>
        /\ ret.status = "ok"
        /\ \A k \in 1..Len(ShapeGrid) :
              AxisExtent(k) = (ret.centre[k] - call.radius)..(ret.centre[k] + call.radius)

\* a shape of odd radius about a centre inside the grid, less than r cells
\* away from an edge
C12_ShapeNearAnEdge ==
    /\ ShapeReturned
    /\ OddRadiusLargeGrid
    /\ CentreInGrid
    /\ ~CentreClearOfEdges

\* a disc of radius 3 clear of the edges
C12_DiscOfRadiusThree ==
    /\ ShapeReturned
    /\ call.op = "makeDisc"
    /\ call.radius = 3
    /\ OddRadiusLargeGrid
    /\ CentreClearOfEdges

(***************************************************************************)
(* Properties of makeArc.                                                  *)
(***************************************************************************)
ArcReturnedFinite ==
    /\ Returned("makeArc")
    /\ ret.status = "ok"
    /\ ~call.radius.inf
    /\ call.radius.half = 0

\* C6: for a finite radius every set cell lies on the rasterised circle of
\* that radius about the centre c that makeArc clips with, and the angle
\* between (cell - c) and (arc_pos - c) is at most asin(diameter/2/radius);
\* also when a coordinate of c is 0 or c is outside the grid.
C6_ArcLiesOnCircleAboutC ==
    ArcReturnedFinite =>
        \A cell \in ret.arc :
            /\ cell \in MidpointCircle(call.grid_size[1], call.grid_size[2],
                                       ret.c[1], ret.c[2], call.radius.val, 4).circle
            /\ ArcKeeps(OneBased(cell), ret.c, call.arc_pos, call.radius.val,
                        call.diameter)

\* an arc whose centre of curvature has a coordinate of 0 kept some cell
C6_CentreWithZeroCoordinate ==
    /\ ArcReturnedFinite
    /\ (ret.c[1] = 0 \/ ret.c[2] = 0)
    /\ ret.arc # {}

\* twice the radius argument of a finite-radius call
TwiceRadius == 2 * call.radius.val + call.radius.half

\* one of the conditions makeArc is to reject holds of the arguments:
\* non-positive grid size, radius or diameter, arc centre outside the grid,
\* diameter > 2 * radius, even diameter, focus_pos = arc_pos
ArcInputInvalid ==
    \/ call.grid_size[1] < 1 \/ call.grid_size[2] < 1
    \/ ~call.radius.inf /\ TwiceRadius <= 0
    \/ call.diameter <= 0
    \/ ~InGrid(call.arc_pos, call.grid_size[1], call.grid_size[2])
    \/ ~call.radius.inf /\ call.diameter > TwiceRadius
    \/ call.diameter % 2 = 0
    \/ call.focus_pos = call.arc_pos

\* C13: makeArc rejects with an invalid-argument error every input with a
\* non-positive grid size, radius or diameter, an arc centre outside the
\* grid, diameter > 2 * radius, an even diameter or focus_pos = arc_pos, and
\* accepts every input that violates none of these, diameter = 2 * radius and
\* radius = infinity included.
C13_RejectsExactlyInvalidInput ==
    Returned("makeArc") =>
        IF ArcInputInvalid THEN ret.status = "ValueError" ELSE ret.status = "ok"

\* a call with diameter = 2 * radius that violates none of the conditions
C13_DiameterTwiceRadius ==
    /\ Returned("makeArc")
    /\ ~ArcInputInvalid
    /\ ~call.radius.inf
    /\ call.diameter = TwiceRadius

\* a call with radius = infinity that returned an arc
ArcReturnedInfinite ==
    /\ Returned("makeArc")
    /\ ret.status = "ok"
    /\ call.radius.inf

FocusAxisAligned ==
    \/ call.focus_pos[1] = call.arc_pos[1]
    \/ call.focus_pos[2] = call.arc_pos[2]

\* the axis (1 or 2) perpendicular to the direction from arc_pos to the focus
PerpendicularAxis == IF call.focus_pos[1] = call.arc_pos[1] THEN 1 ELSE 2

\* (diameter - 1) / 2 cells fit on each side of arc_pos along that axis
FlatArcUnclipped ==
    LET h == (call.diameter - 1) \div 2
        k == PerpendicularAxis
    IN  /\ call.arc_pos[k] - h >= 1
        /\ call.arc_pos[k] + h <= call.grid_size[k]

\* C19: for radius = infinity and a focus axis-aligned with the arc centre,
\* an arc not clipped by the grid sets exactly diameter cells: arc_pos and
\* (diameter - 1) / 2 cells on each side of it along the grid axis
\* perpendicular to the direction from arc_pos to the focus.
C19_FlatArcHasDiameterCells ==
    (Returned("makeArc") /\ ~ArcInputInvalid /\ call.radius.inf
       /\ FocusAxisAligned /\ FlatArcUnclipped) =>
        LET h == (call.diameter - 1) \div 2
            k == PerpendicularAxis
        IN  /\ ret.status = "ok"
            /\ Cardinality(ret.arc) = call.diameter
            /\ ret.arc = { ToZeroBased(IF k = 1
                                       THEN <<call.arc_pos[1] + d, call.arc_pos[2]>>
                                       ELSE <<call.arc_pos[1], call.arc_pos[2] + d>>) :
                             d \in (-h)..h }

\* an unclipped flat arc of diameter 5
C19_FlatArcOfFive ==
    /\ ArcReturnedInfinite
    /\ FocusAxisAligned
    /\ FlatArcUnclipped
    /\ call.diameter = 5

(***************************************************************************)
(* Properties of makePixelMap.                                             *)
(***************************************************************************)
\* the index tuples of the zero-valued cells of the returned field
ZeroCells == { idx \in DOMAIN ret.r2 : ret.r2[idx] = 0 }

\* C15: with default options (single origin, shift = 1 on every axis) the
\* distance field has the shape of the grid and exactly one zero-valued cell,
\* at 0-based index floor(N/2) on every axis, for 2D and 3D grid sizes.
C15_DefaultOriginAtFloorHalf ==
    (Returned("makePixelMap") /\ call.originOpt = NotGiven /\ call.shiftOpt = NotGiven) =>
        /\ ret.status = "ok"
        /\ ret.shape = call.dims
        /\ ZeroCells = { [k \in 1..Len(call.dims) |-> FloorHalf(call.dims[k])] }

\* a default 3D map with an even and an odd grid size
C15_DefaultMapEvenAndOdd ==
    /\ Returned("makePixelMap")
    /\ call.originOpt = NotGiven
    /\ call.shiftOpt = NotGiven
    /\ Len(call.dims) = 3
    /\ call.dims[1] % 2 = 0
    /\ call.dims[2] % 2 = 1
    /\ call.dims[1] >= 4
    /\ Cardinality(ZeroCells) = 1

(***************************************************************************)
(* Properties of get_spaced_points.                                        *)
(***************************************************************************)
\* a call with X2 > X1 (and X1 > 0 for logarithmic spacing) and a count N
\* of 0 or 1
FewPointsCall ==
    /\ Returned("get_spaced_points")
    /\ call.stop > call.start
    /\ call.spacing \in {"linear", "log"}
    /\ call.spacing = "log" => call.start > 0
    /\ call.n \in {0, 1}

\* the sample is the end value X2
IsStop(p) == p[1] = p[2]

\* C16: get_spaced_points(start, stop, n) with stop > start and n < 2 returns
\* the end value X2 (= stop), for 'linear' and for 'log' spacing.
C16_FewPointsReturnStop ==
    FewPointsCall =>
        /\ ret.status = "ok"
        /\ Len(ret.points) = 1
        /\ IsStop(ret.points[1])

\* n = 1 was asked for and one sample came back
C16_OnePointAsked ==
    /\ FewPointsCall
    /\ call.n = 1
    /\ ret.status = "ok"
    /\ Len(ret.points) = 1

(***************************************************************************)
(* Lines along an axis                                                     *)
(***************************************************************************)
\* the normalised angle of the call is one of the four axis cases
AxisAngleCall == AngledInGrid /\ IsAxis(Sector(NormaliseAngle(call.angle)))

\* the unit step the claim names for each axis case
AxisDirection(sec) ==
    CASE sec = "pi" -> <<0, 1>>
      [] sec = "halfpi" -> <<-1, 0>>
      [] sec = "zero" -> <<0, -1>>
      [] sec = "neghalfpi" -> <<1, 0>>

\* cells between the start point and the grid edge in that direction
CellsToEdge(sec) ==
    CASE sec = "pi" -> call.Ny - call.startpoint[2]
      [] sec = "halfpi" -> call.startpoint[1] - 1
      [] sec = "zero" -> call.startpoint[2] - 1
      [] sec = "neghalfpi" -> call.Nx - call.startpoint[1]

\* the 0-based cells of the returned grid that are set
LineCells == { WrittenCell(k) : k \in 1..Len(ret.trace) }

\* the start cell and the next n cells in the direction of the axis case
StraightRun(sec, n) ==
    { <<call.startpoint[1] - 1 + i * AxisDirection(sec)[1],
        call.startpoint[2] - 1 + i * AxisDirection(sec)[2]>> : i \in 0..n }

\* C18: in angle mode with an in-grid start, integer length L and an angle
\* that normalises to an axis case, the call returns a grid whose set cells
\* are exactly the start cell plus the next min(L, cells to the grid edge)
\* cells in a straight line, towards +y for +-pi, -x for pi/2, -y for 0 and
\* +x for -pi/2; an unclipped line has L + 1 cells.
C18_AxisLineCells ==
    AxisAngleCall =>
        LET sec == Sector(NormaliseAngle(call.angle))
            n == Min2(call.length, CellsToEdge(sec))
        IN  /\ ret.status = "ok"
            /\ LineCells = StraightRun(sec, n)
            /\ call.length <= CellsToEdge(sec) =>
                  Cardinality(LineCells) = call.length + 1

\* an unclipped line of length 3 towards -x, asked for as an angle of
\* pi/2 + 2 pi
C18_UnclippedTowardsMinusX ==
    /\ AxisAngleCall
    /\ call.angle = [q4 |-> 5, p |-> 0, q |-> 1]
    /\ call.length = 3
    /\ call.startpoint[1] = 4
    /\ Cardinality(LineCells) = 4

(***************************************************************************)
(* The midpoint loop of makeCircle                                         *)
(***************************************************************************)
\* squared distance of a candidate point from the centre the routine used
SqDistFromCentre(pt) == Sq(pt[1] - ret.centre[1]) + Sq(pt[2] - ret.centre[2])

\* C20: throughout makeCircle's midpoint loop the loop variables satisfy
\* 0 <= x <= y <= radius, and for every integer radius >= 1 every point the
\* algorithm plots, before the grid and angle tests, lies within one grid
\* cell of the ideal circle: (radius - 1)^2 < dx^2 + dy^2 < (radius + 1)^2
\* for its offset (dx, dy) from the centre.
C20_MidpointLoopInvariant ==
    Returned("makeCircle") =>
        /\ \A k \in 1..Len(ret.loop) :
              /\ 0 <= ret.loop[k][1]
              /\ ret.loop[k][1] <= ret.loop[k][2]
              /\ ret.loop[k][2] <= call.radius
        /\ call.radius >= 1 =>
              \A k \in 1..Len(ret.plotted) :
                  /\ Sq(call.radius - 1) < SqDistFromCentre(ret.plotted[k])
                  /\ SqDistFromCentre(ret.plotted[k]) < Sq(call.radius + 1)

\* a circle of radius 20, whose loop made 14 steps, the last to x = y = 14
C20_CircleOfRadiusTwenty ==
    /\ Returned("makeCircle")
    /\ call.radius = 20
    /\ Len(ret.loop) = 15
    /\ ret.loop[15][1] = 14
    /\ ret.loop[15][2] = 14
    /\ Len(ret.plotted) = 4 + 8 * 14

(***************************************************************************)
(* The caller's arrays (specification PureSpec)                            *)
(*                                                                         *)
(* Arrays are objects: a heap maps the name of each array to its value.    *)
(* The caller_ arrays are the ones the caller passes, the own_ arrays the  *)
(* ones the call creates.  A local variable of the routine is the name of  *)
(* the array it refers to.                                                 *)
(***************************************************************************)
\* np.array(obj, dtype=int) with an array obj refers to the caller's array
\* itself instead of a new one
NpArrayShared(obj, fresh) == obj

\* lines 788, 790: np.array(obj, dtype=int) copies by default: the local
\* name is rebound to the new array
NpArray(obj, fresh) == fresh

\* lines 1157, 1158, 1160: obj.round().astype(int) builds a new array
RoundAsInt(obj, fresh) == fresh

\* the new array of np.array or of round().astype(int) holds the values of
\* obj (whole numbers stay as they are)
Allocate(heap, obj, fresh) == [heap EXCEPT ![fresh] = heap[obj]]

\* lines 807-808: a -= 1 writes the array that a names, in place
InPlaceMinusOne(heap, ref) ==
    [heap EXCEPT ![ref] = <<heap[ref][1] - 1, heap[ref][2] - 1>>]

LineHeap(startpoint, endpoint) ==
    [caller_startpoint |-> startpoint, caller_endpoint |-> endpoint,
     own_startpoint |-> NoPoint, own_endpoint |-> NoPoint]

\* lines 788-808 on the heap; the operator makeLine makes the decrement of
\* lines 807-808 on the values it is given, so it is given the values the
\* local arrays hold before that write
makeLineOnHeap(Nx, Ny, heap, angle, length) ==
    LET hasEndpoint == heap["caller_endpoint"] # NoPoint
        startpoint == NpArray("caller_startpoint", "own_startpoint")
        h1 == Allocate(heap, "caller_startpoint", "own_startpoint")
        endpoint == IF hasEndpoint THEN NpArray("caller_endpoint", "own_endpoint")
                    ELSE "caller_endpoint"
        h2 == IF hasEndpoint THEN Allocate(h1, "caller_endpoint", "own_endpoint")
              ELSE h1
        h3 == IF hasEndpoint
              THEN InPlaceMinusOne(InPlaceMinusOne(h2, startpoint), endpoint)
              ELSE h2
    IN  [result |-> makeLine(Nx, Ny, h2[startpoint], h2[endpoint], angle, length),
         heap |-> h3]

ArcHeap(grid_size, arc_pos, focus_pos) ==
    [caller_grid_size |-> grid_size, caller_arc_pos |-> arc_pos,
     caller_focus_pos |-> focus_pos, own_grid_size |-> NoPoint,
     own_arc_pos |-> NoPoint, own_focus_pos |-> NoPoint]

\* lines 1157-1160 on the heap; the rest of makeArc reads its own arrays and
\* hands own arc_pos to makeLine in angle mode, which writes no array
makeArcOnHeap(heap, radiusArg, diameter) ==
    LET grid_size == RoundAsInt("caller_grid_size", "own_grid_size")
        arc_pos == RoundAsInt("caller_arc_pos", "own_arc_pos")
        focus_pos == RoundAsInt("caller_focus_pos", "own_focus_pos")
        h == Allocate(Allocate(Allocate(heap, "caller_grid_size", "own_grid_size"),
                               "caller_arc_pos", "own_arc_pos"),
                      "caller_focus_pos", "own_focus_pos")
    IN  [result |-> makeArc(h[grid_size], h[arc_pos], radiusArg, diameter,
                            h[focus_pos]),
         heap |-> h]

\* the arrays the caller holds, as the heap has them
CallerArrays(heap) ==
    IF call.op = "makeLine"
    THEN LineHeap(heap["caller_startpoint"], heap["caller_endpoint"])
    ELSE ArcHeap(heap["caller_grid_size"], heap["caller_arc_pos"],
                 heap["caller_focus_pos"])

\* the heap when the caller has built its arguments
CallHeap ==
    IF call.op = "makeLine"
    THEN LineHeap(call.startpoint, call.endpoint)
    ELSE ArcHeap(call.grid_size, call.arc_pos, call.focus_pos)

PureInit ==
    /\ phase = "call"
    /\ ret = NoRet
    /\ \/ LineAtoBCall
       \/ LineAngledCall
       \/ ArcCall

\* the call, on the caller's arrays
PureMakeLine ==
    /\ phase = "call"
    /\ call.op = "makeLine"
    /\ \E out \in {makeLineOnHeap(call.Nx, call.Ny, CallHeap, call.angle, call.length)} :
          ret' = [first |-> out.result, heap |-> CallerArrays(out.heap)]
    /\ phase' = "return"
    /\ UNCHANGED call

PureMakeArc ==
    /\ phase = "call"
    /\ call.op = "makeArc"
    /\ \E out \in {makeArcOnHeap(CallHeap, call.radius, call.diameter)} :
          ret' = [first |-> out.result, heap |-> CallerArrays(out.heap)]
    /\ phase' = "return"
    /\ UNCHANGED call

\* the caller calls again with the same objects
PureMakeLineAgain ==
    /\ phase = "return"
    /\ call.op = "makeLine"
    /\ \E out \in {makeLineOnHeap(call.Nx, call.Ny, ret.heap, call.angle, call.length)} :
          ret' = [first |-> ret.first, second |-> out.result,
                  heap |-> CallerArrays(out.heap)]
    /\ phase' = "again"
    /\ UNCHANGED call

PureMakeArcAgain ==
    /\ phase = "return"
    /\ call.op = "makeArc"
    /\ \E out \in {makeArcOnHeap(ret.heap, call.radius, call.diameter)} :
          ret' = [first |-> ret.first, second |-> out.result,
                  heap |-> CallerArrays(out.heap)]
    /\ phase' = "again"
    /\ UNCHANGED call

PureNext ==
    \/ PureMakeLine
    \/ PureMakeArc
    \/ PureMakeLineAgain
    \/ PureMakeArcAgain

PureSpec == PureInit /\ [][PureNext]_vars

\* C21: makeLine and makeArc leave their arguments alone: after any call,
\* successful or failing, the caller's startpoint, endpoint, arc_pos,
\* focus_pos and grid_size hold the values they were passed with (the
\* in-place decrement of makeLine writes a private copy), and a second call
\* with the same inputs returns the same grid as the first.
C21_ArgumentsUntouched ==
    /\ phase \in {"return", "again"} => ret.heap = CallHeap
    /\ phase = "again" => ret.second = ret.first

\* a point-to-point line drawn twice from the same start and end arrays
C21_LineDrawnTwice ==
    /\ phase = "again"
    /\ call.op = "makeLine"
    /\ call.startpoint = <<1, 1>>
    /\ call.endpoint = <<3, 2>>
    /\ ret.second.status = "ok"
    /\ ret.heap["caller_startpoint"] = <<1, 1>>

====
